---- MODULE Spec2Model ----
(***************************************************************************)
(* Natural force density solver of compas_fd.                              *)
(*                                                                         *)
(*   - StiffnessMatrixAssembler (compas_fd/nfd/matrices.py): triplet       *)
(*     assembly of the force density stiffness matrix, over the integers.  *)
(*   - nfd_ur / nfd / _nfd_solve (nfd_solver/nfd/nfd_numpy.py): the outer  *)
(*     driver with its iteration cap and convergence test, and the inner   *)
(*     solve around scipy's spsolve.                                       *)
(*                                                                         *)
(* Floating point values are modelled by integers; a NaN is the value NaN, *)
(* which orders below, above and equal to nothing, as in IEEE 754.         *)
(***************************************************************************)
EXTENDS Integers, Sequences, FiniteSets, TLC

VARIABLES
    pc,         \* position of the running call
    nv,         \* number of mesh vertices, shape(xyz)[0]
    fixed,      \* indices of the fixed vertices
    edges,      \* processed edges: [v |-> vertices_ids, n |-> force_density]
    faces,      \* processed faces: [v |-> vertices_ids, n |-> force_densities]
    stiff,      \* StiffnessMatrixAssembler._mat of the last assembly
    kmax,       \* nfd_ur argument
    s_calc,     \* nfd_ur argument
    k,          \* loop variable of nfd_ur
    converged,  \* local of nfd_ur
    s_res,      \* local of nfd_ur
    xyz_D,      \* local of nfd_ur (xyz_Δ)
    cur,        \* locals xyz, r, s, f of nfd_ur: the solve (or, for s, the
                \* get_stresses call) each comes from, 0 before any
    solves,     \* every _nfd_solve call so far: its s_calc and its outcome
    stresses,   \* every NaturalFace.get_stresses call so far
    out,        \* lines printed by _output_message
    ret,        \* the value returned, or the exception raised
    loads,      \* the LoadMatrixAssembler object
    geom,       \* coordinates the faces and the edges were last refreshed
                \* with (update_xyz): the number of the solve they come from
    mem,        \* the coordinate arrays: mem[0] is asarray(vertices), mem[n]
                \* the array _xyz of the n-th inner solve
    flow,       \* per inner solve, what each of its steps read
    strail,     \* stress pseudo-vectors: the first and every transform of it
    sops        \* the transforms applied, in order

vars == << pc, nv, fixed, edges, faces, stiff, kmax, s_calc, k, converged,
           s_res, xyz_D, cur, solves, stresses, out, ret,
           loads, geom, mem, flow, strail, sops >>

asmVars == << nv, fixed, edges, faces, stiff >>
drvVars == << kmax, s_calc, k, converged, s_res, xyz_D, cur, solves,
              stresses, out, ret >>
solveVars == << loads, geom, mem, flow >>
stressVars == << strail, sops >>

(***************************************************************************)
(* Bounds of the model.                                                    *)
(***************************************************************************)
MaxFaces == 2       \* faces handed to one assembly
MaxEdges == 1       \* edges handed to one assembly
MaxK == 3           \* largest iteration cap tried

\* A local name holds << >> while it is not bound and << value >> once it
\* is; NoMat is the matrix not built yet. Residuals are never negative, so
\* the number below zero stands for NaN.
Unbound == << >>
NoMat == << >>
NaN == 0 - 1

\* The values of the variables a specification does not use.
NoLoads == << >>
SolveIdle ==
    /\ loads = NoLoads /\ geom = [faces |-> 0, edges |-> 0]
    /\ mem = << >> /\ flow = << >>
StressIdle == strail = << >> /\ sops = << >>
DrvIdle ==
    /\ kmax = 0 /\ s_calc = 0 /\ k = Unbound /\ converged = Unbound
    /\ s_res = Unbound /\ xyz_D = Unbound
    /\ cur = [xyz |-> 0, r |-> 0, s |-> 0, f |-> 0, finite |-> TRUE]
    /\ solves = << >> /\ stresses = << >> /\ out = << >> /\ ret = Unbound

\* Vertices of the meshes handed to the assembler alone.
AsmVerts == 0 .. 4

\* Sum of f over the set S, and a sequence without its i-th element.
RECURSIVE SumOver(_, _)
SumOver(f, S) ==
    IF S = {} THEN 0
    ELSE LET x == CHOOSE y \in S : TRUE IN f[x] + SumOver(f, S \ { x })

\* f[1] + ... + f[n].
RECURSIVE SumTo(_, _)
SumTo(f, n) == IF n = 0 THEN 0 ELSE f[n] + SumTo(f, n - 1)

Without(seq, i) == SubSeq(seq, 1, i - 1) \o SubSeq(seq, i + 1, Len(seq))

(***************************************************************************)
(* StiffnessMatrixAssembler                                                *)
(***************************************************************************)
EmptyCoo == [data |-> << >>, rows |-> << >>, cols |-> << >>]

Extend(coo, d, r, c) ==
    [data |-> coo.data \o d, rows |-> coo.rows \o r, cols |-> coo.cols \o c]

Mut_add_tri_face(coo, face) ==
    LET v0 == face.v[1]  v1 == face.v[2]  v2 == face.v[3]
        n0 == face.n[1]  n1 == face.n[2]  n2 == face.n[3]
    IN  Extend(coo,
               << n0 + n1, -n2, -n1,
                  -n2, n0 + n2, -n0,
                  -n1, -n0, n0 + n1 >>,
               << v0, v0, v0, v1, v1, v1, v2, v2, v2 >>,
               << v0, v1, v2, v0, v1, v2, v0, v1, v2 >>)

add_tri_face(coo, face) ==
    LET v0 == face.v[1]  v1 == face.v[2]  v2 == face.v[3]
        n0 == face.n[1]  n1 == face.n[2]  n2 == face.n[3]
    IN  Extend(coo,
               << n1 + n2, -n2, -n1,
                  -n2, n0 + n2, -n0,
                  -n1, -n0, n0 + n1 >>,
               << v0, v0, v0, v1, v1, v1, v2, v2, v2 >>,
               << v0, v1, v2, v0, v1, v2, v0, v1, v2 >>)

add_quad_face(coo, face) ==
    LET v0 == face.v[1]  v1 == face.v[2]  v2 == face.v[3]  v3 == face.v[4]
        n0 == face.n[1]  n1 == face.n[2]  n2 == face.n[3]
        n3 == face.n[4]  n4 == face.n[5]  n5 == face.n[6]
    IN  Extend(coo,
               << n0 + n3 + n5, -n0, -n5, -n3,
                  -n0, n0 + n1 + n4, -n1, -n4,
                  -n5, -n1, n1 + n2 + n5, -n2,
                  -n3, -n4, -n2, n2 + n3 + n4 >>,
               << v0, v0, v0, v0, v1, v1, v1, v1,
                  v2, v2, v2, v2, v3, v3, v3, v3 >>,
               << v0, v1, v2, v3, v0, v1, v2, v3,
                  v0, v1, v2, v3, v0, v1, v2, v3 >>)

\* One pass of the loop body of _add_faces.
Mut_add_face(coo, face) ==
    LET fv_count == Len(face.v)
    IN  IF fv_count = 3 THEN add_tri_face(coo, face)
        ELSE IF fv_count = 4 THEN add_quad_face(coo, face)
        ELSE IF fv_count > 4 THEN add_tri_face(coo, face)
        ELSE coo

add_face(coo, face) ==
    LET fv_count == Len(face.v)
    IN  IF fv_count = 3 THEN add_tri_face(coo, face)
        ELSE IF fv_count = 4 THEN add_quad_face(coo, face)
        ELSE coo

RECURSIVE add_faces_from(_, _, _)
add_faces_from(coo, fs, i) ==
    IF i > Len(fs) THEN coo
    ELSE add_faces_from(add_face(coo, fs[i]), fs, i + 1)

add_faces(coo, fs) == add_faces_from(coo, fs, 1)

\* One pass of the loop body of _add_edges.
Mut_add_edge(coo, edge) ==
    LET v0 == edge.v[1]  v1 == edge.v[2]  n == edge.n
    IN  Extend(coo, << n, n, -n, -n >>, << v0, v1, v0, v1 >>, << v0, v1, v0, v1 >>)

add_edge(coo, edge) ==
    LET v0 == edge.v[1]  v1 == edge.v[2]  n == edge.n
    IN  Extend(coo, << n, n, -n, -n >>, << v0, v1, v0, v1 >>, << v0, v1, v1, v0 >>)

RECURSIVE add_edges_from(_, _, _)
add_edges_from(coo, es, i) ==
    IF i > Len(es) THEN coo
    ELSE add_edges_from(add_edge(coo, es[i]), es, i + 1)

add_edges(coo, es) == add_edges_from(coo, es, 1)

\* coo_matrix(...).tocsr(): entries of equal (row, col) are summed.
RECURSIVE Mut_CooSum(_, _, _, _)
Mut_CooSum(coo, i, j, n) ==
    IF n = 0 THEN 0
    ELSE IF coo.rows[n] = i /\ coo.cols[n] = j THEN coo.data[n]
    ELSE Mut_CooSum(coo, i, j, n - 1)

RECURSIVE CooSum(_, _, _, _)
CooSum(coo, i, j, n) ==
    IF n = 0 THEN 0
    ELSE (IF coo.rows[n] = i /\ coo.cols[n] = j THEN coo.data[n] ELSE 0)
         + CooSum(coo, i, j, n - 1)

tocsr(coo, v_count) ==
    [i \in 0 .. v_count - 1 |->
        [j \in 0 .. v_count - 1 |-> CooSum(coo, i, j, Len(coo.data))]]

\* __init__: faces first, then edges, then the csr matrix of
\* len(free + fixed) rows and columns.
StiffnessMatrixAssembler(free, fxd, es, fs) ==
    LET v_count == Cardinality(free) + Cardinality(fxd)
    IN  CHOOSE mat \in { tocsr(coo, v_count) :
                            coo \in { add_edges(add_faces(EmptyCoo, fs), es) } } : TRUE

\* The properties free_matrix and fixed_matrix: mat[ix_(free, free)] and
\* mat[ix_(free, fixed)], kept with their vertex indices.
free_matrix(mat, free) == [i \in free |-> [j \in free |-> mat[i][j]]]
fixed_matrix(mat, free, fxd) == [i \in free |-> [j \in fxd |-> mat[i][j]]]

(***************************************************************************)
(* Inputs of the assembler.                                                *)
(***************************************************************************)
\* Force densities n0, n1, ... of one element: all equal to q, or rising
\* from q by one per entry, so that every entry is told from the others.
Uniform(q, m) == [i \in 1 .. m |-> q]
Rising(q, m) == [i \in 1 .. m |-> q + i - 1]

\* Three force densities for a triangle, six for a quadrilateral; the
\* assembler reads none of a face of another vertex count.
DensityCount(m) == IF m = 4 THEN 6 ELSE m

FaceShapes ==
    { << 0, 1, 2 >>, << 2, 1, 3 >>, << 0, 1, 2, 3 >>, << 3, 4 >>,
      << 0, 1, 2, 3, 4 >> }

FaceDensities(sh) ==
    IF Len(sh) \in { 3, 4 }
    THEN { Uniform(2, DensityCount(Len(sh))),
           Uniform(-1, DensityCount(Len(sh))),
           Rising(-1, DensityCount(Len(sh))) }
    ELSE { Uniform(2, DensityCount(Len(sh))) }

FaceOptions ==
    UNION { { [v |-> sh, n |-> d] : d \in FaceDensities(sh) } : sh \in FaceShapes }

EdgeOptions ==
    { [v |-> e, n |-> q] : e \in { << 0, 1 >>, << 2, 1 >>, << 3, 4 >> },
                           q \in { -1, 2 } }

SeqsUpTo(S, n) == UNION { [1 .. m -> S] : m \in 0 .. n }

InitAsm ==
    /\ pc = "asm_input"
    /\ nv = Cardinality(AsmVerts)
    /\ fixed = { 0 }
    /\ faces \in SeqsUpTo(FaceOptions, MaxFaces)
    /\ edges \in SeqsUpTo(EdgeOptions, MaxEdges)
    /\ stiff = NoMat
    /\ kmax = 0 /\ s_calc = 0 /\ k = Unbound /\ converged = Unbound
    /\ s_res = Unbound /\ xyz_D = Unbound
    /\ cur = [xyz |-> 0, r |-> 0, s |-> 0, f |-> 0, finite |-> TRUE]
    /\ solves = << >> /\ stresses = << >> /\ out = << >> /\ ret = Unbound
    /\ SolveIdle /\ StressIdle

Free == (0 .. nv - 1) \ fixed

\* stiff = StiffnessMatrixAssembler(free, fixed, edges, faces)
Assemble ==
    /\ pc = "asm_input"
    /\ stiff' = StiffnessMatrixAssembler(Free, fixed, edges, faces)
    /\ pc' = "asm_done"
    /\ UNCHANGED << nv, fixed, edges, faces >>
    /\ UNCHANGED drvVars
    /\ UNCHANGED solveVars
    /\ UNCHANGED stressVars

NextAsm == Assemble

SpecAsm == InitAsm /\ [][NextAsm]_vars

(***************************************************************************)
(* LoadMatrixAssembler                                                     *)
(*                                                                         *)
(* A load is a vector << x, y, z >> of integers and a load matrix a        *)
(* function from the vertices to loads. An optional argument is << >> when *)
(* it is None and << value >> when it is given.                            *)
(***************************************************************************)
MaxCalls == 3       \* calls of update() on one object, and refreshes of the faces

None == << >>

VAdd(a, b) == [i \in 1 .. 3 |-> a[i] + b[i]]
VScale(x, a) == [i \in 1 .. 3 |-> x * a[i]]
MatVec(R, a) == [i \in 1 .. 3 |-> R[i][1] * a[1] + R[i][2] * a[2] + R[i][3] * a[3]]

\* face.area and the rotation of face.frame once update_xyz has refreshed
\* the face with the coordinates of solve ver (0: the coordinates the mesh
\* came with). The area is counted in units that make area / len(face)
\* whole; the frame is the global one or the one turned a quarter about z.
face_area(face, ver) == Len(face.v) * (ver + 1)

face_rotation(face, ver) ==
    IF ver % 2 = 0
    THEN << << 1, 0, 0 >>, << 0, 1, 0 >>, << 0, 0, 1 >> >>
    ELSE << << 0, -1, 0 >>, << 1, 0, 0 >>, << 0, 0, 1 >> >>

zeros(size) == [v \in 0 .. size - 1 |-> << 0, 0, 0 >>]

\* _load_mat(loads, default)
load_mat(given, default) == IF given # None THEN given[1] ELSE default

\* self._mat[...] = value: the array _mat names is written, and it is the
\* array of _vertices_mat as long as the two names share it.
WriteMat(L, value) ==
    [L EXCEPT !.mat = value,
              !.vertices_mat = IF L.shared THEN value ELSE @]

\* One pass of the loop of _add_face_loads, for the i-th face and its load.
add_face_load(L, fs, ver, local, i) ==
    LET face == fs[i]
        face_load == IF local THEN L.lfl[1][i] ELSE L.gfl[1][i]
        scaled == VScale(face_area(face, ver) \div Len(face.v), face_load)
        vertex_load == IF local THEN MatVec(face_rotation(face, ver), scaled)
                       ELSE scaled
        ids == { face.v[j] : j \in 1 .. Len(face.v) }
    IN  WriteMat(L, [v \in DOMAIN L.mat |->
                        IF v \in ids THEN VAdd(L.mat[v], vertex_load) ELSE L.mat[v]])

\* _add_face_loads(local): zip(self.faces, face_loads) from the i-th pair on.
RECURSIVE add_face_loads_from(_, _, _, _, _)
add_face_loads_from(L, fs, ver, local, i) ==
    LET face_loads == IF local THEN L.lfl[1] ELSE L.gfl[1]
    IN  IF i > Len(fs) \/ i > Len(face_loads) THEN L
        ELSE add_face_loads_from(add_face_load(L, fs, ver, local, i),
                                 fs, ver, local, i + 1)

add_face_loads(L, fs, ver, local) == add_face_loads_from(L, fs, ver, local, 1)

\* update(), on faces last refreshed with the coordinates of solve ver.
Mut_update(L, fs, ver) ==
    LET L1 == L
        L2 == IF L1.gfl # None THEN add_face_loads(L1, fs, ver, FALSE) ELSE L1
        L3 == IF L2.lfl # None THEN add_face_loads(L2, fs, ver, TRUE) ELSE L2
    IN  [L3 EXCEPT !.calls = @ + 1]

update(L, fs, ver) ==
    IF ~L.has_face_loads THEN [L EXCEPT !.calls = @ + 1]
    ELSE LET L1 == [L EXCEPT !.mat = L.vertices_mat, !.shared = FALSE]
             L2 == IF L1.gfl # None THEN add_face_loads(L1, fs, ver, FALSE) ELSE L1
             L3 == IF L2.lfl # None THEN add_face_loads(L2, fs, ver, TRUE) ELSE L2
         IN  [L3 EXCEPT !.calls = @ + 1]

\* __init__: the object after construction, its first update() included.
\* The fields gfl and lfl hold _gfl and _lfl, None or << rows >>; args
\* keeps the vertex loads as they were handed over and calls counts the
\* calls of update().
LoadMatrixAssembler(size, fs, ver, vertex_loads, global_face_loads, local_face_loads) ==
    LET vertices_mat == load_mat(vertex_loads, zeros(size))
        gfl == IF global_face_loads # None
               THEN << load_mat(global_face_loads, None) >> ELSE None
        lfl == IF local_face_loads # None
               THEN << load_mat(local_face_loads, None) >> ELSE None
    IN  update([args |-> vertex_loads,
                vertices_mat |-> vertices_mat,
                gfl |-> gfl,
                lfl |-> lfl,
                has_face_loads |-> (gfl # None) \/ (lfl # None),
                mat |-> vertices_mat,
                shared |-> TRUE,
                calls |-> 0],
               fs, ver)

\* Inputs of the load assembler: triangles and a quadrilateral on four
\* vertices, a load on every vertex or none, and global and local loads on
\* the first faces, on all of them or on none.
LoadVerts == 0 .. 3

LoadFaces ==
    { [v |-> sh, n |-> Uniform(2, DensityCount(Len(sh)))] :
        sh \in { << 0, 1, 2 >>, << 2, 1, 3 >>, << 0, 1, 2, 3 >> } }

LoadVecs == { << 0, 0, 2 >>, << 1, 0, -1 >> }

VertexLoads == [v \in LoadVerts |-> << 0, v, 1 >>]

Optional(S) == { None } \cup { << x >> : x \in S }

InitLoad ==
    /\ pc = "updated"
    /\ nv = Cardinality(LoadVerts)
    /\ fixed = { 0 } /\ edges = << >> /\ stiff = NoMat
    /\ faces \in SeqsUpTo(LoadFaces, MaxFaces)
    /\ geom = [faces |-> 0, edges |-> 0]
    /\ \E vertex_loads \in Optional({ VertexLoads }),
          global_face_loads \in Optional(SeqsUpTo(LoadVecs, Len(faces))),
          local_face_loads \in Optional(SeqsUpTo(LoadVecs, Len(faces))) :
          loads = LoadMatrixAssembler(nv, faces, geom.faces, vertex_loads,
                                      global_face_loads, local_face_loads)
    /\ mem = << >> /\ flow = << >>
    /\ DrvIdle /\ StressIdle

\* face.update_xyz(xyz) of every face, edge.update_xyz(xyz) of every edge.
UpdateXyz ==
    /\ pc \in { "updated", "moved" } /\ geom.faces < MaxCalls
    /\ geom' = [faces |-> geom.faces + 1, edges |-> geom.edges + 1]
    /\ pc' = "moved"
    /\ UNCHANGED << loads, mem, flow >>
    /\ UNCHANGED asmVars
    /\ UNCHANGED drvVars
    /\ UNCHANGED stressVars

\* loads.update()
Update ==
    /\ pc \in { "updated", "moved" } /\ loads.calls < MaxCalls
    /\ loads' = update(loads, faces, geom.faces)
    /\ pc' = "updated"
    /\ UNCHANGED << geom, mem, flow >>
    /\ UNCHANGED asmVars
    /\ UNCHANGED drvVars
    /\ UNCHANGED stressVars

NextLoad == UpdateXyz \/ Update

SpecLoad == InitLoad /\ [][NextLoad]_vars

(***************************************************************************)
(* nfd_ur, nfd and _nfd_solve                                              *)
(***************************************************************************)
\* Residuals and tolerances are counted in units of 1e-6; the default
\* s_tol = xyz_tol = 1e-2 is 10000.
s_tol == 10000
xyz_tol == 10000

\* Residuals tried: below the tolerance, equal to it and above it.
ResVals == { 4, 10000, 20004 }

\* a < b on floats: false as soon as one side is NaN.
Lt(a, b) == a # NaN /\ b # NaN /\ a < b

\* round(x, 5) of a non negative float, in units of 1e-6: to the nearest
\* multiple of ten, a tie to the even one; NaN stays NaN.
Round5(x) ==
    IF x = NaN THEN NaN
    ELSE LET q == x \div 10
             m == x % 10
         IN  IF m < 5 THEN 10 * q
             ELSE IF m > 5 THEN 10 * (q + 1)
             ELSE IF q % 2 = 0 THEN 10 * q ELSE 10 * (q + 1)

\* Line 109: converged = (s_res < s_tol) or (xyz_Δ < xyz_tol)
Mut_ConvergenceTest(sr, xd) == Lt(sr, s_tol) /\ Lt(xd, xyz_tol)

ConvergenceTest(sr, xd) == Lt(sr, s_tol) \/ Lt(xd, xyz_tol)

\* for k in range(kmax): the value k takes next, and whether there is one.
NextK == IF k = Unbound THEN 0 ELSE k[1] + 1

Mut_InRange(i, n) == i <= n

InRange(i, n) == i < n

\* _output_message: the line printed.
Mut_output_message(conv, kk, sr, xd) ==
    [text |-> "No convergence reached", iterations |-> kk + 1,
     s_res |-> Round5(sr), xyz_D |-> Round5(xd)]

output_message(conv, kk, sr, xd) ==
    IF conv
    THEN [text |-> "Convergence reached", iterations |-> kk + 1]
    ELSE [text |-> "No convergence reached", iterations |-> kk + 1,
          s_res |-> Round5(sr), xyz_D |-> Round5(xd)]

\* Determinant of the rows rs and columns cs of mat, by expansion along
\* the first row.
RECURSIVE SetToSeq(_)
SetToSeq(S) ==
    IF S = {} THEN << >>
    ELSE LET x == CHOOSE y \in S : \A z \in S : y <= z
         IN  << x >> \o SetToSeq(S \ { x })

RECURSIVE Det(_, _, _)
Det(mat, rs, cs) ==
    IF rs = << >> THEN 1
    ELSE LET term[j \in 1 .. Len(cs)] ==
                 (IF j % 2 = 1 THEN 1 ELSE -1) * mat[rs[1]][cs[j]]
                 * Det(mat, Tail(rs), Without(cs, j))
         IN  SumTo(term, Len(cs))

Singular(Di) == Det(Di, SetToSeq(DOMAIN Di), SetToSeq(DOMAIN Di)) = 0

\* spsolve(Di, b): on a singular Di scipy warns (MatrixRankWarning) and
\* hands back an array of NaN, or, when rounding hides the zero pivot, finite
\* garbage; it raises nothing. A NaN among the operands gives either as well.
spsolve_finite(Di, operands_finite) ==
    IF Singular(Di) \/ ~operands_finite THEN { TRUE, FALSE } ELSE { TRUE }

\* update_xyz of the faces: the force densities are derived anew from the
\* stress goals and the new coordinates.
UpdatedFaces(fs) ==
    { nf \in [1 .. Len(fs) -> FaceOptions] :
        \A i \in 1 .. Len(fs) : nf[i].v = fs[i].v }

\* The residuals nfd_ur computes from the result of a solve.
Residuals(finite) == IF finite THEN ResVals ELSE ResVals \cup { NaN }

\* Line 141, _xyz = array(xyz, copy=True): the values of the array src of
\* the memory h, in an array of its own that shares no memory with another.
Mut_array(h, src) == [vals |-> h[src], shares |-> { src }]

array(h, src) == [vals |-> h[src], shares |-> {}]

\* Line 152, _xyz[free] = ...: the rows of arr are written with value, in
\* the memory of the array dst and of every array that shares it.
set_rows(h, dst, arr, rows, value) ==
    LET written == [v \in DOMAIN arr.vals |->
                      IF v \in rows THEN value ELSE arr.vals[v]]
    IN  [i \in DOMAIN h \cup { dst } |->
            IF i = dst \/ i \in arr.shares THEN written ELSE h[i]]

\* Lines 153-154: update_xyz(_xyz) of every face and of every edge, _xyz
\* being the coordinates of solve n.
Mut_refresh(g, n) == [faces |-> n, edges |-> g.edges]

refresh(g, n) == [faces |-> n, edges |-> n]

\* _nfd_solve(xyz, fixed, faces, edges, loads, mode), whose spsolve ends
\* with finite or NaN coordinates and whose update_xyz leaves the faces nf.
\* In the order of the code: the copy _xyz, the stiffness matrix D, the
\* updated load matrix p, the solve into the free rows of _xyz (each row of
\* an array holds the number of the solve that wrote it, 0 before any; res
\* tells whether what was written is finite), the refresh g of faces and
\* edges, and the stresses and forces read from them. The call, its get_stresses and what each step read are
\* recorded, and res is the tuple (_xyz, r, s, f) handed back.
nfd_solve(mode, finite, nf, res) ==
    \E D \in { StiffnessMatrixAssembler(Free, fixed, edges, faces) },
       n \in { Len(solves) + 1 },
       arr \in { array(mem, cur.xyz) },
       p \in { update(loads, faces, geom.faces) },
       g \in { refresh(geom, Len(solves) + 1) } :
        /\ \E Di \in { free_matrix(D, Free) } :
              finite \in spsolve_finite(Di, cur.finite)
        /\ nf \in UpdatedFaces(faces)
        /\ stiff' = D
        /\ loads' = p
        /\ mem' = set_rows(mem, n, arr, Free, n)
        /\ faces' = nf
        /\ geom' = g
        /\ solves' = Append(solves, mode)
        /\ stresses' = Append(stresses, [mode |-> mode, xyz |-> n, by |-> "_nfd_solve"])
        /\ flow' = Append(flow, [free |-> Free,
                                 stiff_faces |-> geom.faces,
                                 stiff_edges |-> geom.edges,
                                 p_calls |-> p.calls,
                                 p_faces |-> geom.faces,
                                 xyz |-> n,
                                 stress_faces |-> g.faces,
                                 force_edges |-> g.edges])
        /\ res = [xyz |-> n, r |-> n, s |-> Len(stresses) + 1, f |-> n,
                  finite |-> finite]

\* The mesh of the driver: one triangle and one edge on three vertices.
DrvShape == << 0, 1, 2 >>
DrvEdges == << [v |-> << 0, 1 >>, n |-> 2] >>

\* Its loads: none on the vertices, one global load on the face.
DrvFaceLoads == << << 0, 0, 2 >> >>

\* Line 99, xyz = asarray(vertices): no row written by a solve yet.
InitialXyz == [v \in 0 .. nv - 1 |-> 0]

Init ==
    /\ pc = "entry"
    /\ nv = Len(DrvShape)
    /\ fixed \in (SUBSET (0 .. nv - 1)) \ { 0 .. nv - 1 }
    /\ faces \in { << [v |-> DrvShape, n |-> d] >> : d \in FaceDensities(DrvShape) }
    /\ edges = DrvEdges
    /\ stiff = NoMat
    /\ kmax \in 0 .. MaxK
    /\ s_calc \in 0 .. 3
    /\ k = Unbound /\ converged = Unbound
    /\ s_res = Unbound /\ xyz_D = Unbound
    /\ cur = [xyz |-> 0, r |-> 0, s |-> 0, f |-> 0, finite |-> TRUE]
    /\ solves = << >> /\ stresses = << >> /\ out = << >> /\ ret = Unbound
    /\ geom = [faces |-> 0, edges |-> 0]
    /\ loads = LoadMatrixAssembler(nv, faces, geom.faces, None, << DrvFaceLoads >>, None)
    /\ mem = [i \in { 0 } |-> InitialXyz]
    /\ flow = << >>
    /\ StressIdle

\* Lines 101-102: kmax == 1 returns the inner solve with the caller's s_calc.
Mut_Bypass ==
    /\ pc = "entry" /\ kmax = 1
    /\ \E finite \in BOOLEAN, nf \in UpdatedFaces(faces) :
          LET n == Len(solves) + 1
              res == [xyz |-> n, r |-> n, s |-> Len(stresses) + 1, f |-> n,
                      finite |-> finite]
          IN  /\ nfd_solve(-1, finite, nf, res)
              /\ ret' = << res >>
    /\ pc' = "returned"
    /\ UNCHANGED << nv, fixed, edges, kmax, s_calc, k, converged, s_res, xyz_D, cur, out >>
    /\ UNCHANGED stressVars

Bypass ==
    /\ pc = "entry" /\ kmax = 1
    /\ \E finite \in BOOLEAN, nf \in UpdatedFaces(faces) :
          LET n == Len(solves) + 1
              res == [xyz |-> n, r |-> n, s |-> Len(stresses) + 1, f |-> n,
                      finite |-> finite]
          IN  /\ nfd_solve(s_calc, finite, nf, res)
              /\ ret' = << res >>
    /\ pc' = "returned"
    /\ UNCHANGED << nv, fixed, edges, kmax, s_calc, k, converged, s_res, xyz_D, cur, out >>
    /\ UNCHANGED stressVars

\* Line 101 with kmax != 1: on to the loop of line 104.
EnterLoop ==
    /\ pc = "entry" /\ kmax # 1
    /\ pc' = "loop"
    /\ UNCHANGED asmVars
    /\ UNCHANGED drvVars
    /\ UNCHANGED solveVars
    /\ UNCHANGED stressVars

\* Lines 104-112: one pass of the loop body.
Iterate ==
    /\ pc = "loop" /\ InRange(NextK, kmax)
    /\ k' = << NextK >>
    /\ \E finite \in BOOLEAN, nf \in UpdatedFaces(faces) :
          LET n == Len(solves) + 1
              res == [xyz |-> n, r |-> n, s |-> Len(stresses) + 1, f |-> n,
                      finite |-> finite]
          IN  /\ nfd_solve(-1, finite, nf, res)
              /\ cur' = res
              /\ \E sr \in Residuals(finite), xd \in Residuals(finite) :
                    /\ s_res' = << sr >>
                    /\ xyz_D' = << xd >>
                    /\ converged' = << ConvergenceTest(sr, xd) >>
    /\ pc' = IF converged'[1] THEN "after_loop" ELSE "loop"
    /\ UNCHANGED << nv, fixed, edges, kmax, s_calc, out, ret >>
    /\ UNCHANGED stressVars

\* Line 104: range(kmax) has no further value.
LoopEnd ==
    /\ pc = "loop" /\ ~InRange(NextK, kmax)
    /\ pc' = "after_loop"
    /\ UNCHANGED asmVars
    /\ UNCHANGED drvVars
    /\ UNCHANGED solveVars
    /\ UNCHANGED stressVars

\* Line 114: _output_message(converged, k, s_res, xyz_Δ); the names are not
\* bound when the loop body never ran.
OutputMessage ==
    /\ pc = "after_loop"
    /\ IF converged = Unbound
       THEN /\ pc' = "raised"
            /\ ret' = << [exception |-> "UnboundLocalError"] >>
            /\ out' = out
       ELSE /\ pc' = "message_done"
            /\ out' = Append(out, output_message(converged[1], k[1], s_res[1], xyz_D[1]))
            /\ ret' = ret
    /\ UNCHANGED asmVars
    /\ UNCHANGED << kmax, s_calc, k, converged, s_res, xyz_D, cur, solves, stresses >>
    /\ UNCHANGED solveVars
    /\ UNCHANGED stressVars

\* Lines 115-117: s = NaturalFace.get_stresses(faces, xyz, s_calc) and
\* return xyz, r, s, f.
Mut_FinalStresses ==
    /\ pc = "message_done"
    /\ stresses' = stresses
    /\ cur' = cur
    /\ ret' = << cur' >>
    /\ pc' = "returned"
    /\ UNCHANGED asmVars
    /\ UNCHANGED << kmax, s_calc, k, converged, s_res, xyz_D, solves, out >>
    /\ UNCHANGED solveVars
    /\ UNCHANGED stressVars

FinalStresses ==
    /\ pc = "message_done"
    /\ stresses' = Append(stresses, [mode |-> s_calc, xyz |-> cur.xyz, by |-> "nfd_ur"])
    /\ cur' = [cur EXCEPT !.s = Len(stresses) + 1]
    /\ ret' = << cur' >>
    /\ pc' = "returned"
    /\ UNCHANGED asmVars
    /\ UNCHANGED << kmax, s_calc, k, converged, s_res, xyz_D, solves, out >>
    /\ UNCHANGED solveVars
    /\ UNCHANGED stressVars

Next == Bypass \/ EnterLoop \/ Iterate \/ LoopEnd \/ OutputMessage \/ FinalStresses

Spec == Init /\ [][Next]_vars

(***************************************************************************)
(* Properties of the driver.                                               *)
(***************************************************************************)
Last(seq) == seq[Len(seq)]

\* The states of the driver: iterating, and past the loop either converged
\* or exhausted.
Iterating == pc = "loop"
PastLoop == pc \in { "after_loop", "message_done", "returned" }
Converged == PastLoop /\ converged = << TRUE >>
Exhausted == PastLoop /\ converged = << FALSE >>

\* C1: with kmax other than 1, a pass of the loop ends in the converged
\* state exactly when the stress residual is below s_tol or the displacement
\* residual is below xyz_tol, either alone sufficing; the loop stays
\* iterating only while neither holds and k stays under kmax, and it never
\* iterates again after a pass that met the test.
C1_ConvergedOnEitherTest ==
    /\ [](Iterating => converged # << TRUE >>)
    /\ [][Iterating =>
            \/ /\ k' # k /\ k'[1] < kmax
               /\ Lt(s_res'[1], s_tol) \/ Lt(xyz_D'[1], xyz_tol)
               /\ Converged' /\ pc' = "after_loop"
            \/ /\ k' # k /\ k'[1] < kmax
               /\ ~Lt(s_res'[1], s_tol) /\ ~Lt(xyz_D'[1], xyz_tol)
               /\ Iterating' /\ converged' = << FALSE >>
            \/ /\ k' = k /\ NextK >= kmax
               /\ pc' = "after_loop" /\ converged' = converged]_vars

\* The second pass left the loop on the displacement residual alone.
C1_Witness ==
    /\ Converged /\ k = << 1 >>
    /\ ~Lt(s_res[1], s_tol) /\ Lt(xyz_D[1], xyz_tol)

\* Steps the call has left at most: none once it returned or raised.
StepsLeft ==
    CASE pc = "entry" -> kmax + 4
      [] pc = "loop" -> (kmax - NextK) + 3
      [] pc = "after_loop" -> 2
      [] pc = "message_done" -> 1
      [] OTHER -> 0

\* For kmax >= 2: at most kmax inner solves, one per pass; exhausted only
\* after exactly kmax passes; no exception; and a next step to take until
\* the call has returned.
C2_WithinKmax ==
    kmax >= 2 =>
        /\ Len(solves) <= kmax
        /\ k # Unbound => k[1] + 1 = Len(solves)
        /\ Exhausted => (Len(solves) = kmax /\ k = << kmax - 1 >>)
        /\ pc # "raised"
        /\ StepsLeft >= 0
        /\ pc # "returned" => ENABLED Next

\* C2: for kmax >= 2 the call ends: it makes at most kmax inner solves, and
\* when no pass meets the convergence test it is exhausted after exactly
\* kmax passes. It ends because, until it has returned, it always has a next
\* step, and every step leaves it fewer steps to take (never below zero).
C2_Terminates ==
    /\ []C2_WithinKmax
    /\ [][kmax >= 2 => StepsLeft' < StepsLeft]_vars

\* The call returned exhausted, after kmax >= 2 passes.
C2_Witness ==
    /\ pc = "returned" /\ Exhausted
    /\ kmax >= 2 /\ Len(solves) = kmax

\* C3 as stated: past the loop one more inner solve is run with the caller's
\* s_calc, and its results are what is returned.
C3_FinalInnerSolve ==
    (pc = "returned" /\ kmax # 1) =>
        /\ Len(solves) = k[1] + 2
        /\ Last(solves) = s_calc

\* C3 amended: past the loop no further inner solve is run. Every inner
\* solve is a pass of the loop, with stress mode -1; the final stresses come
\* from one call of NaturalFace.get_stresses with the caller's s_calc on the
\* final coordinates, made after the loop, and only then are the coordinates,
\* reactions and forces of the last pass returned with those stresses.
C3_FinalStressesOnly ==
    /\ (ret # Unbound) => pc \in { "returned", "raised" }
    /\ (pc = "returned" /\ kmax # 1) =>
          LET n == Len(solves)
          IN  /\ n = k[1] + 1
              /\ \A i \in 1 .. n : solves[i] = -1
              /\ Len(stresses) = n + 1
              /\ Last(stresses) = [mode |-> s_calc, xyz |-> n, by |-> "nfd_ur"]
              /\ ret = << [xyz |-> n, r |-> n, s |-> n + 1, f |-> n,
                           finite |-> cur.finite] >>

\* The call returned after two passes or more, asked for principal stresses.
C3_Witness ==
    /\ pc = "returned" /\ kmax # 1
    /\ Len(solves) >= 2 /\ s_calc = 2

\* C4 as stated: every run that returns has reported the convergence status
\* together with both residuals (read here of the runs that enter the loop).
C4_AlwaysReportsResiduals ==
    (pc = "returned" /\ kmax # 1) =>
        /\ Len(out) >= 1
        /\ { "text", "s_res", "xyz_D" } \subseteq DOMAIN Last(out)

\* A residual as printed: rounded to five decimals.
Printed(shown, x) ==
    IF x = NaN THEN shown = NaN
    ELSE shown % 10 = 0 /\ shown - x <= 5 /\ x - shown <= 5

\* C4 amended: a run whose loop body ran prints one line with the status
\* and the number of passes; the line carries the two residuals, rounded to
\* five decimals, only when the run did not converge. A run with kmax = 1
\* prints nothing, and a run with kmax <= 0 raises before printing.
C4_ReportsStatus ==
    /\ (pc = "returned" /\ kmax = 1) => out = << >>
    /\ pc = "raised" => (out = << >> /\ kmax <= 0)
    /\ (pc \in { "message_done", "returned" } /\ kmax # 1) =>
          /\ Len(out) = 1
          /\ out[1].iterations = k[1] + 1
          /\ IF converged[1]
             THEN /\ DOMAIN out[1] = { "text", "iterations" }
                  /\ out[1].text = "Convergence reached"
             ELSE /\ DOMAIN out[1] = { "text", "iterations", "s_res", "xyz_D" }
                  /\ out[1].text = "No convergence reached"
                  /\ Printed(out[1].s_res, s_res[1])
                  /\ Printed(out[1].xyz_D, xyz_D[1])

\* The call returned converged on its second pass.
C4_Witness ==
    /\ pc = "returned" /\ converged = << TRUE >>
    /\ k = << 1 >> /\ Len(out) = 1

\* C5: with kmax = 1 the loop is bypassed: one inner solve is made, with
\* the caller's s_calc, no convergence test is evaluated, nothing is printed
\* and what the solve handed back is returned unchanged.
C5_BypassIsInnerSolve ==
    (kmax = 1) =>
        /\ pc \in { "entry", "returned" }
        /\ k = Unbound /\ converged = Unbound
        /\ s_res = Unbound /\ xyz_D = Unbound /\ out = << >>
        /\ pc = "entry" => (solves = << >> /\ ret = Unbound)
        /\ pc = "returned" =>
              /\ solves = << s_calc >>
              /\ stresses = << [mode |-> s_calc, xyz |-> 1, by |-> "_nfd_solve"] >>
              /\ \E fin \in BOOLEAN :
                    ret = << [xyz |-> 1, r |-> 1, s |-> 1, f |-> 1, finite |-> fin] >>

\* A call with kmax = 1 and s_calc = 3 returned.
C5_Witness ==
    /\ pc = "returned" /\ kmax = 1 /\ s_calc = 3
    /\ ret # Unbound /\ stiff # NoMat

\* C6: with kmax >= 0 other than 1 and no pass meeting the convergence
\* test, the call raises no exception and returns its estimate (stated for
\* the meshes that have a fixed vertex).
C6_ExhaustionReturns ==
    (kmax >= 0 /\ kmax # 1 /\ fixed # {} /\ converged # << TRUE >>) => pc # "raised"

\* C7: a solve with no fixed vertex never returns coordinates, reactions,
\* stresses and forces as if it had succeeded.
C7_NoFixedVertexNoResult ==
    (fixed = {}) => pc # "returned"

(***************************************************************************)
(* Properties of the assembled matrix.                                     *)
(***************************************************************************)
Built == pc = "asm_done"

HasArity(m) == \E i \in 1 .. Len(faces) : Len(faces[i].v) = m

\* C8: every row of the matrix built by StiffnessMatrixAssembler sums to
\* zero: each diagonal entry is the negative sum of the off-diagonal
\* entries of its row, whatever the signs of the force densities.
C8_RowSumsZero ==
    Built =>
        \A i \in DOMAIN stiff :
            stiff[i][i] = 0 - SumOver(stiff[i], DOMAIN stiff \ { i })

\* A triangle, a quadrilateral and an edge were assembled, with a negative
\* and a positive force density among them.
C8_Witness ==
    /\ Built
    /\ HasArity(3) /\ HasArity(4) /\ Len(edges) > 0
    /\ \E i \in 1 .. Len(faces) : \E j \in DOMAIN faces[i].n : faces[i].n[j] < 0
    /\ \E i \in DOMAIN stiff : stiff[i][i] > 0

\* The force densities of every edge and of every face all equal q.
UniformQ(q) ==
    /\ \A i \in 1 .. Len(edges) : edges[i].n = q
    /\ \A i \in 1 .. Len(faces) : \A j \in DOMAIN faces[i].n : faces[i].n[j] = q

\* Graph Laplacian built directly from a sequence of vertex pairs: the
\* degree on the diagonal, minus the number of joining pairs elsewhere.
Joins(pair, i, j) == pair \in { << i, j >>, << j, i >> }

Laplacian(pairs) ==
    [i \in 0 .. nv - 1 |->
        [j \in 0 .. nv - 1 |->
            IF i = j
            THEN Cardinality({ n \in 1 .. Len(pairs) :
                                 pairs[n][1] # pairs[n][2] /\ i \in { pairs[n][1], pairs[n][2] } })
            ELSE 0 - Cardinality({ n \in 1 .. Len(pairs) : Joins(pairs[n], i, j) })]]

Scaled(q, mat) == [i \in DOMAIN mat |-> [j \in DOMAIN mat[i] |-> q * mat[i][j]]]

\* The sides of a triangle or quadrilateral, and the two diagonals of a
\* quadrilateral.
Sides(v) ==
    IF Len(v) \in { 3, 4 }
    THEN [i \in 1 .. Len(v) |-> << v[i], v[(i % Len(v)) + 1] >>]
    ELSE << >>

Diagonals(v) ==
    IF Len(v) = 4 THEN << << v[1], v[3] >>, << v[2], v[4] >> >> ELSE << >>

RECURSIVE Flatten(_)
Flatten(ss) == IF ss = << >> THEN << >> ELSE Head(ss) \o Flatten(Tail(ss))

EdgePairs == [i \in 1 .. Len(edges) |-> edges[i].v]
FaceSides == Flatten([i \in 1 .. Len(faces) |-> Sides(faces[i].v)])
FaceDiagonals == Flatten([i \in 1 .. Len(faces) |-> Diagonals(faces[i].v)])

\* The edges of the mesh as a simple graph: the listed edges and the sides
\* of the faces, each pair of vertices once.
RECURSIVE Dedup(_)
Dedup(pairs) ==
    IF pairs = << >> THEN << >>
    ELSE LET rest == Dedup(Tail(pairs))
             p == Head(pairs)
         IN  IF \E n \in 1 .. Len(rest) : Joins(rest[n], p[1], p[2])
             THEN rest ELSE << p >> \o rest

MeshEdges == Dedup(EdgePairs \o FaceSides)

Densities == -1 .. 2

C10_OtherAritySkipped ==
    Built =>
        \A i \in 1 .. Len(faces) :
            Len(faces[i].v) \notin { 3, 4 } =>
                stiff = StiffnessMatrixAssembler(Free, fixed, edges, Without(faces, i))

\* A face of five vertices was handed over beside a triangle or a
\* quadrilateral, and the assembly ended with a matrix.
C10_Witness ==
    /\ Built /\ stiff # NoMat
    /\ HasArity(5)
    /\ HasArity(3) \/ HasArity(4)
    /\ \E i \in DOMAIN stiff : stiff[i][i] # 0

\* The block of an element, read as links << a, b, n >>: force density n
\* between the vertices a and b. An edge is one link, a triangle three (n0
\* faces v0, n1 faces v1, n2 faces v2), a quadrilateral six (n0 .. n3 along
\* its sides, n4 and n5 along its diagonals).
EdgeLinks(edge) == << << edge.v[1], edge.v[2], edge.n >> >>

FaceLinks(face) ==
    LET v == face.v
        n == face.n
    IN  IF Len(v) = 3
        THEN << << v[2], v[3], n[1] >>, << v[1], v[3], n[2] >>, << v[1], v[2], n[3] >> >>
        ELSE IF Len(v) = 4
        THEN << << v[1], v[2], n[1] >>, << v[2], v[3], n[2] >>,
                << v[3], v[4], n[3] >>, << v[1], v[4], n[4] >>,
                << v[2], v[4], n[5] >>, << v[1], v[3], n[6] >> >>
        ELSE << >>

\* The entry the block of an element contributes at (i, j): minus the force
\* density of the link between i and j, and on the diagonal the sum of the
\* force densities of the links that end in i.
BlockEntry(links, i, j) ==
    LET hit == { m \in 1 .. Len(links) :
                   IF i = j THEN i \in { links[m][1], links[m][2] }
                   ELSE Joins(<< links[m][1], links[m][2] >>, i, j) }
        nn == [m \in hit |-> links[m][3]]
    IN  IF i = j THEN SumOver(nn, hit) ELSE 0 - SumOver(nn, hit)

\* The elements whose block lies over (i, j).
Touching(i, j) ==
    [edges |-> { m \in 1 .. Len(edges) :
                   { i, j } \subseteq { edges[m].v[1], edges[m].v[2] } },
     faces |-> { m \in 1 .. Len(faces) :
                   /\ Len(faces[m].v) \in { 3, 4 }
                   /\ { i, j } \subseteq { faces[m].v[x] : x \in 1 .. Len(faces[m].v) } }]

\* C13: every entry (i, j) of the assembled matrix, i = j included, is the
\* sum of the entries that the blocks of all edges and all faces touching
\* both vertices contribute there; no contributor overwrites another.
C13_EntriesAccumulate ==
    Built =>
        \A i \in DOMAIN stiff : \A j \in DOMAIN stiff :
            LET on == Touching(i, j)
                of_edge == [m \in on.edges |-> BlockEntry(EdgeLinks(edges[m]), i, j)]
                of_face == [m \in on.faces |-> BlockEntry(FaceLinks(faces[m]), i, j)]
            IN  stiff[i][j] = SumOver(of_edge, on.edges) + SumOver(of_face, on.faces)

\* Two faces and an edge all lie over the pair (1, 2), with force densities
\* that differ, and the entry there is not what the edge, added last, put.
C13_Witness ==
    /\ Built
    /\ Cardinality(Touching(1, 2).faces) = 2
    /\ Cardinality(Touching(1, 2).edges) = 1
    /\ \E m \in 1 .. Len(faces) : faces[m].n[1] # faces[m].n[2]
    /\ stiff[1][2] # 0 - edges[1].n
    /\ stiff[1][1] # edges[1].n

(***************************************************************************)
(* Stress transforms (compas_fd/nfd/math_utilities.py)                     *)
(*                                                                         *)
(* A float is modelled by a rational: a stress pseudo-vector is            *)
(* [n |-> << sx, sy, txy >>, d |-> den], the vector n / den in lowest      *)
(* terms, and an angle is given by its cosine c / h and sine s / h with    *)
(* c * c + s * s = h * h, so that every product below is exact.            *)
(***************************************************************************)
MaxOps == 2         \* transforms applied in a row

Abs(x) == IF x < 0 THEN 0 - x ELSE x

RECURSIVE Gcd(_, _)
Gcd(a, b) == IF b = 0 THEN a ELSE Gcd(b, a % b)

\* The vector n / d in lowest terms.
Reduced(vec) ==
    LET g == Gcd(Gcd(Gcd(Abs(vec.n[1]), Abs(vec.n[2])), Abs(vec.n[3])), vec.d)
    IN  [n |-> [i \in 1 .. 3 |-> vec.n[i] \div g], d |-> vec.d \div g]

\* Angles 0, pi / 2 and two angles of the 3-4-5 triangle.
Angles ==
    { [c |-> 1, s |-> 0, h |-> 1], [c |-> 0, s |-> 1, h |-> 1],
      [c |-> 3, s |-> 4, h |-> 5], [c |-> -4, s |-> 3, h |-> 5] }

\* -angle: the cosine stays, the sine changes sign.
Neg(angle) == [angle EXCEPT !.s = 0 - angle.s]

SignedAngles == Angles \cup { Neg(a) : a \in Angles }

\* sin, cos, s2 and c2: numerators over h, and over h * h for the squares.
sin(a) == a.s
cos(a) == a.c
s2(a) == sin(a) * sin(a)
c2(a) == cos(a) * cos(a)

\* planar_rotation(angle): [[c, -s], [s, c]], numerators over h.
planar_rotation(angle) ==
    [n |-> << << cos(angle), 0 - sin(angle) >>, << sin(angle), cos(angle) >> >>,
     d |-> angle.h]

stress_vec_to_tensor(vec) == << << vec[1], vec[3] >>, << vec[3], vec[2] >> >>

stress_tensor_to_vec(tens) == << tens[1][1], tens[2][2], tens[1][2] >>

\* A.dot(B) and A.T of 2x2 arrays.
Dot(A, B) ==
    [i \in 1 .. 2 |-> [j \in 1 .. 2 |-> A[i][1] * B[1][j] + A[i][2] * B[2][j]]]

Transpose(A) == [i \in 1 .. 2 |-> [j \in 1 .. 2 |-> A[j][i]]]

transform_stress(stress, rotation, invert) ==
    LET st == stress_vec_to_tensor(stress.n)
        R == rotation.n
        r == IF invert THEN Dot(Dot(R, st), Transpose(R))
             ELSE Dot(Dot(Transpose(R), st), R)
    IN  Reduced([n |-> stress_tensor_to_vec(r),
                 d |-> rotation.d * rotation.d * stress.d])

Mut_transform_stress_angle(stress, angle, invert) ==
    LET a == angle
        s2a == s2(a)
        c2a == c2(a)
        sca == sin(a) * cos(a)
        T == << << c2a, s2a, 2 * sca >>,
                << s2a, c2a, 0 - 2 * sca >>,
                << 0 - sca, sca, c2a - s2a >> >>
    IN  Reduced([n |-> [i \in 1 .. 3 |->
                          T[i][1] * stress.n[1] + T[i][2] * stress.n[2]
                          + T[i][3] * stress.n[3]],
                 d |-> a.h * a.h * stress.d])

transform_stress_angle(stress, angle, invert) ==
    LET a == IF invert THEN Neg(angle) ELSE angle
        s2a == s2(a)
        c2a == c2(a)
        sca == sin(a) * cos(a)
        T == << << c2a, s2a, 2 * sca >>,
                << s2a, c2a, 0 - 2 * sca >>,
                << 0 - sca, sca, c2a - s2a >> >>
    IN  Reduced([n |-> [i \in 1 .. 3 |->
                          T[i][1] * stress.n[1] + T[i][2] * stress.n[2]
                          + T[i][3] * stress.n[3]],
                 d |-> a.h * a.h * stress.d])

\* Stress pseudo-vectors tried: isotropic or not, with and without shear.
StressVecs ==
    { [n |-> << sx, sy, txy >>, d |-> 1] :
        sx \in { -1, 2 }, sy \in { 0, 2 }, txy \in { 0, 1 } }

\* The variables of the assembler and of the driver, not used here.
DriverIdle ==
    /\ nv = 0 /\ fixed = {} /\ faces = << >> /\ edges = << >> /\ stiff = NoMat
    /\ DrvIdle

InitStress ==
    /\ pc = "stress"
    /\ strail \in { << v >> : v \in StressVecs }
    /\ sops = << >>
    /\ DriverIdle /\ SolveIdle

\* strail[Len(strail)] = transform_stress_angle(stress, angle, invert)
TransformStressAngle ==
    /\ pc = "stress" /\ Len(sops) < MaxOps
    /\ \E angle \in SignedAngles, invert \in BOOLEAN :
          /\ strail' = Append(strail,
                 transform_stress_angle(strail[Len(strail)], angle, invert))
          /\ sops' = Append(sops, [fn |-> "transform_stress_angle",
                                   angle |-> angle, invert |-> invert])
    /\ UNCHANGED << pc, loads, geom, mem, flow >>
    /\ UNCHANGED asmVars
    /\ UNCHANGED drvVars

\* strail[Len(strail)] = transform_stress(stress, planar_rotation(angle), invert)
TransformStress ==
    /\ pc = "stress" /\ Len(sops) < MaxOps
    /\ \E angle \in SignedAngles, invert \in BOOLEAN :
          /\ strail' = Append(strail,
                 transform_stress(strail[Len(strail)], planar_rotation(angle), invert))
          /\ sops' = Append(sops, [fn |-> "transform_stress",
                                   angle |-> angle, invert |-> invert])
    /\ UNCHANGED << pc, loads, geom, mem, flow >>
    /\ UNCHANGED asmVars
    /\ UNCHANGED drvVars

NextStress == TransformStressAngle \/ TransformStress

SpecStress == InitStress /\ [][NextStress]_vars

\* The second transform undoes the first: the same function with the same
\* angle (rotation matrix) and invert toggled, or transform_stress_angle
\* with the negated angle and the same invert.
Undoes(first, second) ==
    /\ first.fn = second.fn
    /\ \/ first.angle = second.angle /\ first.invert # second.invert
       \/ /\ first.fn = "transform_stress_angle"
          /\ second.angle = Neg(first.angle) /\ first.invert = second.invert

\* C11: a stress pseudo-vector transformed and then transformed back is the
\* vector it was: transform_stress_angle by an angle and then by the negated
\* angle, or by the same angle with invert toggled, and transform_stress by
\* a rotation matrix and then by the same matrix with invert toggled.
C11_RoundTrip ==
    \A i \in 1 .. Len(sops) - 1 :
        Undoes(sops[i], sops[i + 1]) => strail[i + 2] = strail[i]

\* A sheared vector went through a 3-4-5 rotation that changed it, and back.
C11_Witness ==
    /\ Len(sops) = 2 /\ Undoes(sops[1], sops[2])
    /\ sops[1].angle.h > 1
    /\ strail[1].n[3] # 0
    /\ strail[2] # strail[1]
    /\ strail[3] = strail[1]

(***************************************************************************)
(* Properties of the load matrix.                                          *)
(***************************************************************************)
\* The vertex loads as they were handed to the constructor.
Baseline == IF loads.args # None THEN loads.args[1] ELSE zeros(nv)

\* What the i-th face load hands to each vertex of its face, under the
\* geometry of now: load * area / vertex count, turned by the frame of the
\* face when the load is a local one.
Share(load, i, local) ==
    LET area == face_area(faces[i], geom.faces)
        count == Len(faces[i].v)
        part == [j \in 1 .. 3 |-> (load[j] * area) \div count]
    IN  IF local THEN MatVec(face_rotation(faces[i], geom.faces), part) ELSE part

RECURSIVE VSum(_, _)
VSum(f, S) ==
    IF S = {} THEN << 0, 0, 0 >>
    ELSE LET x == CHOOSE y \in S : TRUE IN VAdd(f[x], VSum(f, S \ { x }))

\* The shares vertex v receives from the face loads given, one per load.
Received(given, v, local) ==
    IF given = None THEN << 0, 0, 0 >>
    ELSE LET rows == given[1]
             on == { i \in 1 .. Len(rows) : i <= Len(faces) }
             share == [i \in on |-> Share(rows[i], i, local)]
         IN  VSum(share, { i \in on : \E j \in 1 .. Len(faces[i].v) : faces[i].v[j] = v })

\* C12: after any number of update() calls the baseline of vertex loads is
\* what was handed over, and the load matrix is that baseline plus exactly
\* one share per face load, computed from the face area of now: nothing is
\* left of the shares of earlier calls. With no face loads the matrix is the
\* baseline, whatever the number of calls.
C12_BaselinePlusFaceLoads ==
    /\ loads.calls >= 1
    /\ loads.vertices_mat = Baseline
    /\ pc = "updated" =>
          \A v \in 0 .. nv - 1 :
              loads.mat[v] = VAdd(Baseline[v],
                                  VAdd(Received(loads.gfl, v, FALSE),
                                       Received(loads.lfl, v, TRUE)))
    /\ (loads.gfl = None /\ loads.lfl = None) => loads.mat = Baseline

\* The third update() ran on refreshed faces, two of them sharing a vertex,
\* with vertex loads and global and local loads on both faces.
C12_Witness ==
    /\ pc = "updated" /\ loads.calls = MaxCalls /\ geom.faces >= 1
    /\ Len(faces) = 2 /\ faces[1].v # faces[2].v
    /\ loads.args # None
    /\ loads.gfl # None /\ loads.lfl # None
    /\ Len(loads.gfl[1]) = 2 /\ Len(loads.lfl[1]) = 2
    /\ loads.mat # loads.vertices_mat

(***************************************************************************)
(* Properties of the inner solve.                                          *)
(***************************************************************************)
\* What every inner solve so far read, step by step: its stiffness matrix
\* was built from the faces and edges as the solve before left them (as the
\* mesh came, for the first), the load matrix it solved with had been
\* updated once more than solves were made before, on the areas of the
\* same faces, and its stresses and forces were read from faces and edges
\* refreshed with its own coordinates.
StepsOrdered ==
    /\ Len(flow) = Len(solves)
    /\ geom = [faces |-> Len(flow), edges |-> Len(flow)]
    /\ loads.calls = Len(flow) + 1
    /\ \A i \in 1 .. Len(flow) :
          /\ flow[i].stiff_faces = i - 1 /\ flow[i].stiff_edges = i - 1
          /\ flow[i].p_calls = i + 1 /\ flow[i].p_faces = i - 1
          /\ flow[i].xyz = i
          /\ flow[i].stress_faces = i /\ flow[i].force_edges = i

\* The force density the matrix of a pass must hold between the vertices i
\* and j: that of the links of the edges es and faces fs between the two.
LinkEntry(es, fs, i, j) ==
    LET of_edge == [m \in 1 .. Len(es) |-> BlockEntry(EdgeLinks(es[m]), i, j)]
        of_face == [m \in 1 .. Len(fs) |-> BlockEntry(FaceLinks(fs[m]), i, j)]
    IN  SumTo(of_edge, Len(es)) + SumTo(of_face, Len(fs))

\* C14: within one inner solve the stiffness matrix is rebuilt and the load
\* matrix updated before the linear solve, and update_xyz has refreshed
\* every face and every edge with the new coordinates before a stress or a
\* force is computed; so the matrix of a pass holds, between any two
\* vertices, the force densities that the pass before refreshed, not those
\* the pass itself leaves behind, and its load matrix is the one updated on
\* the faces as the pass before left them.
C14_StepsInOrder ==
    /\ []StepsOrdered
    /\ [][Len(solves') > Len(solves) =>
            /\ \A i \in DOMAIN stiff' : \A j \in DOMAIN stiff' :
                  i < j => stiff'[i][j] = LinkEntry(edges, faces, i, j)
            /\ loads'.mat = update(loads, faces, Len(solves)).mat]_vars

\* The call returned after two passes, the second of which refreshed the
\* force densities to other values than it had assembled.
C14_Witness ==
    /\ pc = "returned" /\ Len(flow) = 2
    /\ flow[2].stiff_faces = 1 /\ flow[2].stress_faces = 2
    /\ stiff # StiffnessMatrixAssembler(Free, fixed, edges, faces)

\* The rows of the fixed vertices are the initial ones in every coordinate
\* array, the array handed to the call is as it came, the rows of the free
\* vertices hold what the solve of the array wrote, and free and fixed
\* split the vertices.
FixedRowsKept ==
    /\ mem[0] = InitialXyz
    /\ \A i \in DOMAIN mem :
          /\ \A v \in fixed : mem[i][v] = InitialXyz[v]
          /\ i # 0 => \A v \in Free : mem[i][v] = i
    /\ \A i \in 1 .. Len(flow) :
          /\ flow[i].free \cup fixed = 0 .. nv - 1
          /\ flow[i].free \cap fixed = {}
    /\ pc = "returned" => ret[1].xyz \in DOMAIN mem

\* C15: whatever the number of inner solves and passes, the coordinates of
\* every fixed vertex stay the initial ones (only rows of free vertices are
\* written), free and fixed indices partition the vertices, and no inner
\* solve changes an array that existed before it: it writes to a copy.
C15_FixedAndInputKept ==
    /\ []FixedRowsKept
    /\ [][\A i \in DOMAIN mem : mem'[i] = mem[i]]_vars

\* The call returned after two passes on a mesh with a fixed vertex, both
\* solves having written the free rows of their own array.
C15_Witness ==
    /\ pc = "returned" /\ Len(solves) = 2
    /\ fixed # {}
    /\ \A v \in Free : mem[1][v] = 1 /\ mem[2][v] = 2
    /\ \A v \in fixed : mem[2][v] = mem[0][v]

====
